---------------------------- MODULE Spec2Model ----------------------------
(***************************************************************************)
(* Model of src/app/main.py: a FastAPI backend whose handlers authenticate *)
(* a bearer token, open one database connection, run one or two SQL        *)
(* statements scoped to the caller, and close the connection.              *)
(*                                                                         *)
(* Granularity.  A handler is an asyncio coroutine: it runs without        *)
(* interleaving between two awaits.  The steps of a database handler are   *)
(*   Begin        the prologue before `try`: the oauth2 dependency,        *)
(*                verify_token, get_db_connection (opening a connection    *)
(*                reads and writes no table, so it is fused with entry);   *)
(*   <handler>    the awaited SQL statement with what follows it up to the *)
(*                return: the except clauses, `finally: conn.close()` and  *)
(*                the response.  update_task awaits two statements and has *)
(*                two steps (update_task_select, update_task).             *)
(* verify_token_endpoint and the supabase handlers contain no await that   *)
(* yields to another request (the storage client is synchronous), so each  *)
(* is one step.                                                            *)
(*                                                                         *)
(* Time is counted in whole seconds, the resolution of the JWT exp claim.  *)
(* HS256 and bcrypt are modelled symbolically: a signature or a digest is  *)
(* the tuple of what was signed or hashed, so it can be recomputed and     *)
(* compared but equals no other signature or digest.                       *)
(***************************************************************************)
EXTENDS Integers, FiniteSets, Sequences, TLC

(***************************************************************************)
(* Bounds of the exploration.                                              *)
(***************************************************************************)
\* number of requests that can be in flight together
NumReqs == 2
\* INSERTs into the owned-resource tables in one behaviour
MaxRows == 2
\* advances of the clock in one behaviour
MaxTicks == 1
\* TokenSpec: seconds the clock is followed past an expiry, and the longest
\* explicit expires_delta, in seconds
MaxSeconds == 2
MaxDelta == 2

Reqs == 1 .. NumReqs

\* timedelta(minutes=15) of create_access_token
DefaultExpireMinutes == 15

Usernames == {"a", "b", "c"}
Passwords == {"p1", "p2"}
\* the values bcrypt.gensalt() may return
Salts == {1, 2}
\* request payloads
Descriptions == {"d1", "d2"}
TaskDescriptions == {"d1"}
ColumnNames == {"n1", "n2"}
HealthVals == {"v1"}
FileNames == {"f1"}
\* path parameters: with fewer than MaxRows rows in a table, MaxRows is an id
\* that does not exist
PathIds == 1 .. MaxRows

(***************************************************************************)
(* Token codec: jwt.encode / jwt.decode with HS256, create_access_token,   *)
(* verify_token.                                                           *)
(***************************************************************************)
\* os.environ.get("SECRET_KEY"), and a key a client can make up
SECRET_KEY == "SECRET_KEY"
OtherKey == "client-key"

\* expires_delta = None
NoDelta == -1

HS256(user_id, exp, key) == <<key, user_id, exp>>

jwt_encode(payload, key) ==
    [user_id |-> payload.user_id, exp |-> payload.exp,
     sig |-> HS256(payload.user_id, payload.exp, key)]

\* the Authorization header is absent
NoToken == [user_id |-> 0, exp |-> 0, sig |-> <<>>]

\* jwt.decode: the signature is verified first, then exp against the clock
jwt_decode(token, key, now) ==
    IF token.sig # HS256(token.user_id, token.exp, key)
    THEN [error |-> "InvalidTokenError", user_id |-> 0]
    ELSE IF token.exp <= now
    THEN [error |-> "ExpiredSignatureError", user_id |-> 0]
    ELSE [error |-> "", user_id |-> token.user_id]

\* create_access_token with the id stored under another claim name, so that
\* payload.get("user_id") finds none
create_access_token_other_claim(user_id, expires_delta, now) ==
    LET expire == IF expires_delta # NoDelta /\ expires_delta # 0
                  THEN now + expires_delta
                  ELSE now + DefaultExpireMinutes * 60
    IN  jwt_encode([user_id |-> 0, exp |-> expire], SECRET_KEY)

\* `if expires_delta:` is false for None and for timedelta(0)
create_access_token(user_id, expires_delta, now) ==
    LET expire == IF expires_delta # NoDelta /\ expires_delta # 0
                  THEN now + expires_delta
                  ELSE now + DefaultExpireMinutes * 60
    IN  jwt_encode([user_id |-> user_id, exp |-> expire], SECRET_KEY)

verify_token(token, now) ==
    LET payload == jwt_decode(token, SECRET_KEY, now)
    IN  CASE payload.error = "ExpiredSignatureError" ->
               [status |-> 401, detail |-> "Token expired", user_id |-> 0]
          [] payload.error = "InvalidTokenError" ->
               [status |-> 401, detail |-> "Invalid token", user_id |-> 0]
          [] OTHER ->
               [status |-> 200, detail |-> "", user_id |-> payload.user_id]

(***************************************************************************)
(* bcrypt: hashpw(password, salt) and checkpw(password, hashed).           *)
(***************************************************************************)
hashpw(password, salt) == [salt |-> salt, digest |-> <<"bcrypt", salt, password>>]

\* checkpw re-hashing the candidate with a salt of its own instead of the
\* salt stored in the hash
checkpw_fresh_salt(password, hashed) == hashpw(password, 1) = hashed

\* checkpw re-hashes the candidate with the salt stored in the hash
checkpw(password, hashed) == hashpw(password, hashed.salt) = hashed


(***************************************************************************)
(* State.                                                                  *)
(***************************************************************************)
VARIABLES
    scope,      \* the group of endpoints a behaviour exercises (see Scopes)
    clock,      \* datetime.utcnow(), in seconds
    db,         \* the tables: a set of rows each
    seq,        \* the serial id sequence of each table
    buckets,    \* supabase storage: the ids of the buckets
    files,      \* supabase storage: <<bucket id, file name>>
    conns,      \* the open asyncpg connections
    req,        \* the requests in flight: locals of each handler coroutine
    resp,       \* the response just sent (NoResp after any other step)
    held,       \* client side: the token last returned by login, per account
    createdBy,  \* history: <<table, row id, user_id of the INSERT>>
    regd,       \* history: the accounts create_user has answered for
    issued      \* TokenSpec: the token under test, with when and how it was made

vars == <<scope, clock, db, seq, buckets, files, conns, req, resp, held,
          createdBy, regd, issued>>

(***************************************************************************)
(* The handlers of one scope share a table (or the account table, or the   *)
(* storage); handlers of different scopes share none.  A behaviour         *)
(* exercises the handlers of one scope, under any interleaving.            *)
(***************************************************************************)
HealthTables == {"health_activity", "health_glucose", "health_food"}
OwnedTables == {"tasks", "kanban_columns", "kanban_tasks"} \cup HealthTables
Scopes == {"accounts", "storage"} \cup OwnedTables

\* handlers that await the database (two or more steps)
ScopeDbOps(s) ==
    CASE s = "accounts" -> {"create_user", "login"}
      [] s = "tasks" -> {"create_task", "get_tasks", "update_task", "delete_task"}
      [] s = "kanban_columns" -> {"create_kanban_column", "delete_kanban_column",
                                  "update_kanban_column", "get_kanban_columns"}
      [] s = "kanban_tasks" -> {"create_kanban_task", "get_kanban_tasks",
                                "update_kanban_task", "delete_kanban_task"}
      [] s = "health_activity" -> {"get_health_activity", "create_health_activity",
                                   "delete_health_activity"}
      [] s = "health_glucose" -> {"get_health_glucose", "create_health_glucose",
                                  "delete_health_glucose"}
      [] s = "health_food" -> {"create_health_food", "delete_health_food",
                               "get_health_food"}
      [] OTHER -> {}

InsertOps == {"create_task", "create_kanban_column", "create_kanban_task",
              "create_health_activity", "create_health_glucose",
              "create_health_food"}

AtomicOps == {"verify_token_endpoint", "post_bucket", "upload_file",
              "get_files", "delete_file", "download_file"}

\* Prologue with the connection opened before the token is verified
Prologue_connect_first(op) ==
    CASE op \in {"create_user", "login"} -> <<"get_db_connection">>
      [] op \in AtomicOps -> <<"oauth2_scheme", "verify_token">>
      [] OTHER -> <<"oauth2_scheme", "get_db_connection", "verify_token">>

\* the statements of a handler before its `try`, in program order
Prologue(op) ==
    CASE op \in {"create_user", "login"} -> <<"get_db_connection">>
      [] op \in AtomicOps -> <<"oauth2_scheme", "verify_token">>
      [] OTHER -> <<"oauth2_scheme", "verify_token", "get_db_connection">>

\* asyncpg.connect: a new connection, distinct from every open one
get_db_connection(open) == CHOOSE c \in 1 .. (Cardinality(open) + 1) : c \notin open

\* finally_close with login lacking its finally block
finally_close_not_in_login(op, conn, open) ==
    IF op = "login" THEN open ELSE open \ {conn}

\* finally: await conn.close()
finally_close(op, conn, open) == open \ {conn}

\* the locals of a handler through its prologue
Entered == [status |-> 200, detail |-> "", user_id |-> 0, conn |-> 0, calls |-> 0]

RECURSIVE RunPrologue(_, _, _, _, _)
RunPrologue(steps, token, now, open, st) ==
    IF steps = <<>> THEN st
    ELSE CASE Head(steps) = "oauth2_scheme" ->
                IF token = NoToken
                THEN [st EXCEPT !.status = 401, !.detail = "Not authenticated"]
                ELSE RunPrologue(Tail(steps), token, now, open, st)
           [] Head(steps) = "verify_token" ->
                LET v == verify_token(token, now)
                IN  IF v.status # 200
                    THEN [st EXCEPT !.status = v.status, !.detail = v.detail]
                    ELSE RunPrologue(Tail(steps), token, now, open,
                                     [st EXCEPT !.user_id = v.user_id])
           [] OTHER ->
                LET c == get_db_connection(open)
                IN  RunPrologue(Tail(steps), token, now, open \cup {c},
                                [st EXCEPT !.conn = c, !.calls = @ + 1])

(***************************************************************************)
(* Requests and responses.                                                 *)
(***************************************************************************)
Idle == [pc |-> "idle", op |-> "", client |-> "", token |-> NoToken,
         user_id |-> 0, conn |-> 0, id |-> 0]

\* what a response carries, and what is recorded about the request it answers:
\*   client     the account the presented token was issued to by login
\*   rowcount   the rows the statement's WHERE clause matched
\*   fault      the database or the storage raised an error of its own
\*   calls      database connections and storage calls made for the request
Blank == [op |-> "", client |-> "", token |-> NoToken, user_id |-> 0,
          status |-> 0, detail |-> "", id |-> 0, rows |-> {}, rowcount |-> 0,
          fault |-> FALSE, calls |-> 0, out |-> 0, access_token |-> NoToken,
          username |-> "", password |-> ""]

NoResp == Blank

\* the answer to a request whose prologue raised
Rejected(st) == [Blank EXCEPT !.status = st.status, !.detail = st.detail,
                              !.calls = st.calls]

\* no token under test
NoIssue == [token |-> NoToken, user_id |-> 0, at |-> 0, delta |-> NoDelta]

\* the tokens the holder of account `client` may present
Presented(client) ==
    LET t == held[client]
    IN  {NoToken} \cup
        IF t = NoToken THEN {}
        ELSE {t,
              \* the signature replaced: signed with a key of the client's own
              jwt_encode(t, OtherKey)}
             \cup
              \* the subject replaced by another account's id, the signature kept
              {[t EXCEPT !.user_id = u] :
                 u \in {x.id : x \in db.users} \ {t.user_id}}

\* the id of the account named `client` (0: there is none)
AccountId(client) ==
    LET found == {u \in db.users : u.username = client}
    IN  IF found = {} THEN 0 ELSE (CHOOSE u \in found : TRUE).id

Inserted == Cardinality(createdBy)
InsertsInFlight == Cardinality({r \in Reqs : req[r].op \in InsertOps})

(***************************************************************************)
(* The database schema is not part of the source.  The username column is  *)
(* unique (spec 3, 4.1): an INSERT of a present username raises.           *)
(***************************************************************************)
users_username_unique(users, username) ==
    \A u \in users : u.username # username

\* hashpw("p1", 1) etc.: two accounts registered before the behaviour starts
InitUsers ==
    {[id |-> 1, username |-> "a", password |-> hashpw("p1", 1)],
     [id |-> 2, username |-> "b", password |-> hashpw("p2", 2)]}

Init ==
    /\ scope \in Scopes
    /\ clock = 0
    /\ db = [users |-> InitUsers, tasks |-> {}, kanban_columns |-> {},
             kanban_tasks |-> {}, health_activity |-> {},
             health_glucose |-> {}, health_food |-> {}]
    /\ seq = [users |-> 3, tasks |-> 1, kanban_columns |-> 1,
              kanban_tasks |-> 1, health_activity |-> 1,
              health_glucose |-> 1, health_food |-> 1]
    /\ buckets = {}
    /\ files = {}
    /\ conns = {}
    /\ req = [r \in Reqs |-> Idle]
    /\ resp = NoResp
    /\ held = [n \in Usernames |->
                 IF \E u \in InitUsers : u.username = n
                 THEN create_access_token(
                          (CHOOSE u \in InitUsers : u.username = n).id, NoDelta, 0)
                 ELSE NoToken]
    /\ createdBy = {}
    /\ issued = NoIssue
    /\ regd = {[username |-> u.username, id |-> u.id,
                password |-> IF u.id = 1 THEN "p1" ELSE "p2"] : u \in InitUsers}

\* time passes, by the life of a token: the tokens issued before are then at
\* their expiry (TokenSpec advances the clock by seconds)
Tick ==
    /\ clock + DefaultExpireMinutes * 60 <= MaxTicks * DefaultExpireMinutes * 60
    /\ clock' = clock + DefaultExpireMinutes * 60
    /\ resp' = NoResp
    /\ UNCHANGED <<scope, db, seq, buckets, files, conns, req, held, createdBy, regd, issued>>

(***************************************************************************)
(* Entry of a database handler: the request arrives and the prologue runs. *)
(* An exception in the prologue is outside `try`: the request is answered  *)
(* and no finally block runs.                                              *)
(***************************************************************************)
Begin(r) ==
    /\ req[r].pc = "idle"
    \* the slots are interchangeable: a request takes the first free one
    /\ \A q \in Reqs : q < r => req[q].pc # "idle"
    /\ \E op \in ScopeDbOps(scope), client \in Usernames \cup {""} :
       \E token \in IF client = "" THEN {NoToken} ELSE Presented(client) :
          /\ (client = "") <=> (op \in {"create_user", "login"})
          /\ op \in InsertOps => Inserted + InsertsInFlight < MaxRows
          /\ LET st == RunPrologue(Prologue(op), token, clock, conns, Entered)
             IN  /\ conns' = IF st.conn # 0 THEN conns \cup {st.conn} ELSE conns
                 /\ IF st.status = 200
                    THEN /\ req' = [req EXCEPT ![r] =
                                      [Idle EXCEPT !.pc = "stmt", !.op = op,
                                                   !.client = client,
                                                   !.token = token,
                                                   !.user_id = st.user_id,
                                                   !.conn = st.conn]]
                         /\ resp' = NoResp
                    ELSE /\ req' = req
                         /\ resp' = Rejected(st)
    /\ UNCHANGED <<scope, clock, db, seq, buckets, files, held, createdBy, regd, issued>>

At(r, op) == req[r].pc = "stmt" /\ req[r].op = op

\* the handler of request r returns or raises: finally, then the response
Return(r, fields) ==
    /\ req' = [req EXCEPT ![r] = Idle]
    /\ conns' = finally_close(req[r].op, req[r].conn, conns)
    /\ resp' = fields @@ [op |-> req[r].op, client |-> req[r].client,
                          token |-> req[r].token, user_id |-> req[r].user_id,
                          calls |-> 1] @@ Blank

(***************************************************************************)
(* Accounts.                                                               *)
(***************************************************************************)
create_user(r) ==
    /\ At(r, "create_user")
    /\ \E username \in Usernames, password \in Passwords, salt \in Salts,
          fault \in BOOLEAN :
          LET hashed_password == hashpw(password, salt)
              user_id == seq.users
          IN  IF ~fault /\ users_username_unique(db.users, username)
              THEN /\ db' = [db EXCEPT !.users = @ \cup
                               {[id |-> user_id, username |-> username,
                                 password |-> hashed_password]}]
                   /\ seq' = [seq EXCEPT !.users = @ + 1]
                   /\ regd' = regd \cup {[username |-> username, id |-> user_id,
                                          password |-> password]}
                   /\ Return(r, [status |-> 200,
                                 detail |-> "User created successfully",
                                 out |-> user_id, username |-> username,
                                 password |-> password])
              ELSE \* except Exception as e: 500 with str(e)
                   /\ UNCHANGED <<db, seq, regd>>
                   /\ Return(r, [status |-> 500,
                                 detail |-> IF fault THEN "database error"
                                            ELSE "UniqueViolationError",
                                 fault |-> fault, username |-> username,
                                 password |-> password])
    /\ UNCHANGED <<scope, clock, buckets, files, held, createdBy, issued>>

login(r) ==
    /\ At(r, "login")
    /\ \E username \in Usernames, password \in Passwords, fault \in BOOLEAN :
          LET found == {u \in db.users : u.username = username}
          IN  IF fault
              THEN \* no except clause: the error propagates through finally
                   /\ held' = held
                   /\ Return(r, [status |-> 500, detail |-> "Internal Server Error",
                                 fault |-> TRUE, username |-> username,
                                 password |-> password])
              ELSE \* fetchrow: a matching row, or None
                   \E result \in IF found = {} THEN {[id |-> 0]} ELSE found :
                      IF result.id # 0 /\ checkpw(password, result.password)
                      THEN LET token == create_access_token(result.id, NoDelta, clock)
                           IN  /\ held' = [held EXCEPT ![username] = token]
                               /\ Return(r, [status |-> 200, detail |-> "bearer",
                                             access_token |-> token,
                                             username |-> username,
                                             password |-> password])
                      ELSE /\ held' = held
                           /\ Return(r, [status |-> 400,
                                         detail |-> "Invalid credentials",
                                         username |-> username,
                                         password |-> password])
    /\ UNCHANGED <<scope, clock, db, seq, buckets, files, createdBy, regd, issued>>

\* no await: the whole handler is one step
verify_token_endpoint ==
    /\ scope = "accounts"
    /\ \E client \in Usernames : \E token \in Presented(client) :
          LET st == RunPrologue(Prologue("verify_token_endpoint"), token, clock,
                                conns, Entered)
          IN  resp' = IF st.status # 200 THEN Rejected(st)
                        ELSE [Blank EXCEPT !.op = "verify_token_endpoint",
                                           !.client = client, !.token = token,
                                           !.status = 200,
                                           !.user_id = st.user_id,
                                           !.out = st.user_id]
    /\ UNCHANGED <<scope, clock, db, seq, buckets, files, conns, req, held,
                   createdBy, regd, issued>>

(***************************************************************************)
(* SQL helpers.                                                            *)
(***************************************************************************)
\* Match with the owner left out of the WHERE clause
Match_without_owner(row, id, user_id) == row.id = id

\* WHERE id = $1 AND user_id = $2
Match(row, id, user_id) == row.id = id /\ row.user_id = user_id

\* WHERE user_id = $1
Owned(row, user_id) == row.user_id = user_id

\* INSERT INTO table (...) VALUES (...) RETURNING id, by request r; the
\* history notes the account whose token the request presented
Insert(r, table, row) ==
    /\ db' = [db EXCEPT ![table] = @ \cup {row}]
    /\ seq' = [seq EXCEPT ![table] = @ + 1]
    /\ createdBy' = createdBy \cup {<<table, row.id, AccountId(req[r].client)>>}

\* UPDATE tasks SET completed = $1
set_task(t, completed) == [t EXCEPT !.completed = completed]

\* UPDATE kanban_columns SET name = $1
set_kanban_column(c, name) == [c EXCEPT !.name = name]

\* set_kanban_task with $1 written to user_id instead of column_id
set_kanban_task_user_id(t, new_column_id, description) ==
    [t EXCEPT !.user_id = new_column_id, !.description = description]

\* UPDATE kanban_tasks SET column_id = $1, description = $2
set_kanban_task(t, new_column_id, description) ==
    [t EXCEPT !.column_id = new_column_id, !.description = description]

\* except Exception as e: raise HTTPException(status_code=500, detail=str(e))
DbError == [status |-> 500, detail |-> "database error", fault |-> TRUE]

(***************************************************************************)
(* Tasks.                                                                  *)
(***************************************************************************)
create_task(r) ==
    /\ At(r, "create_task")
    /\ \E description \in TaskDescriptions, completed \in BOOLEAN, fault \in BOOLEAN :
          LET task_id == seq.tasks
          IN  IF ~fault
              THEN /\ Insert(r, "tasks", [id |-> task_id, user_id |-> req[r].user_id,
                                       description |-> description,
                                       completed |-> completed])
                   /\ Return(r, [status |-> 200,
                                 detail |-> "Task created successfully",
                                 out |-> task_id])
              ELSE /\ UNCHANGED <<db, seq, createdBy>>
                   /\ Return(r, DbError)
    /\ UNCHANGED <<scope, clock, buckets, files, held, regd, issued>>

get_tasks(r) ==
    /\ At(r, "get_tasks")
    /\ \E fault \in BOOLEAN :
          LET tasks == {[id |-> t.id, description |-> t.description,
                         completed |-> t.completed] :
                        t \in {x \in db.tasks : Owned(x, req[r].user_id)}}
          IN  IF ~fault
              THEN Return(r, [status |-> 200, detail |-> "tasks", rows |-> tasks])
              ELSE Return(r, DbError)
    /\ UNCHANGED <<scope, clock, db, seq, buckets, files, held, createdBy, regd, issued>>

\* first statement of update_task: the existence SELECT
update_task_select(r) ==
    /\ At(r, "update_task")
    /\ \E task_id \in PathIds, fault \in BOOLEAN :
          LET existing_task == {t \in db.tasks : Match(t, task_id, req[r].user_id)}
          IN  IF fault
              THEN \* except Exception: 500 "Internal server error"
                   Return(r, [status |-> 500, detail |-> "Internal server error",
                              fault |-> TRUE, id |-> task_id])
              ELSE IF existing_task = {}
              THEN \* except HTTPException as e: raise e
                   Return(r, [status |-> 404, detail |-> "Task not found",
                              id |-> task_id])
              ELSE /\ req' = [req EXCEPT ![r].pc = "stmt2", ![r].id = task_id]
                   /\ resp' = NoResp
                   /\ conns' = conns
    /\ UNCHANGED <<scope, clock, db, seq, buckets, files, held, createdBy, regd, issued>>

\* second statement of update_task: the UPDATE, and the return
update_task(r) ==
    /\ req[r].pc = "stmt2" /\ req[r].op = "update_task"
    \* task.completed of the request body is first read here
    /\ \E completed \in BOOLEAN, fault \in BOOLEAN :
          LET hit == {t \in db.tasks : Match(t, req[r].id, req[r].user_id)}
          IN  IF ~fault
              THEN /\ db' = [db EXCEPT !.tasks = (@ \ hit) \cup
                               {set_task(t, completed) : t \in hit}]
                   /\ Return(r, [status |-> 200,
                                 detail |-> "Task updated successfully",
                                 id |-> req[r].id,
                                 rowcount |-> Cardinality(hit)])
              ELSE /\ db' = db
                   /\ Return(r, [status |-> 500, detail |-> "Internal server error",
                                 fault |-> TRUE, id |-> req[r].id])
    /\ UNCHANGED <<scope, clock, seq, buckets, files, held, createdBy, regd, issued>>

delete_task(r) ==
    /\ At(r, "delete_task")
    /\ \E task_id \in PathIds, fault \in BOOLEAN :
          LET hit == {t \in db.tasks : Match(t, task_id, req[r].user_id)}
          IN  IF fault
              THEN /\ db' = db
                   /\ Return(r, DbError @@ [id |-> task_id])
              ELSE /\ db' = [db EXCEPT !.tasks = @ \ hit]
                   /\ IF Cardinality(hit) = 1
                      THEN \* result == "DELETE 1"
                           Return(r, [status |-> 200,
                                      detail |-> "Task deleted successfully",
                                      id |-> task_id, rowcount |-> 1])
                      ELSE \* raise HTTPException(404) inside try: it is an
                           \* Exception, and `except Exception as e` answers
                           \* 500 with str(e)
                           Return(r, [status |-> 500,
                                      detail |-> "404: Task not found",
                                      id |-> task_id,
                                      rowcount |-> Cardinality(hit)])
    /\ UNCHANGED <<scope, clock, seq, buckets, files, held, createdBy, regd, issued>>

(***************************************************************************)
(* Kanban board.  The schema is not part of the source: no foreign key     *)
(* from kanban_tasks.column_id to kanban_columns is modelled.              *)
(***************************************************************************)
create_kanban_column(r) ==
    /\ At(r, "create_kanban_column")
    /\ \E name \in ColumnNames, fault \in BOOLEAN :
          LET column_id == seq.kanban_columns
          IN  IF ~fault
              THEN /\ Insert(r, "kanban_columns",
                             [id |-> column_id, user_id |-> req[r].user_id,
                              name |-> name])
                   /\ Return(r, [status |-> 200,
                                 detail |-> "Kanban column created successfully",
                                 out |-> column_id])
              ELSE /\ UNCHANGED <<db, seq, createdBy>>
                   /\ Return(r, DbError)
    /\ UNCHANGED <<scope, clock, buckets, files, held, regd, issued>>

delete_kanban_column(r) ==
    /\ At(r, "delete_kanban_column")
    /\ \E column_id \in PathIds, fault \in BOOLEAN :
          LET hit == {c \in db.kanban_columns : Match(c, column_id, req[r].user_id)}
          IN  IF ~fault
              THEN /\ db' = [db EXCEPT !.kanban_columns = @ \ hit]
                   \* the result of execute is not looked at
                   /\ Return(r, [status |-> 200,
                                 detail |-> "Kanban column deleted successfully",
                                 id |-> column_id, rowcount |-> Cardinality(hit)])
              ELSE /\ db' = db
                   /\ Return(r, DbError @@ [id |-> column_id])
    /\ UNCHANGED <<scope, clock, seq, buckets, files, held, createdBy, regd, issued>>

update_kanban_column(r) ==
    /\ At(r, "update_kanban_column")
    /\ \E column_id \in PathIds, name \in ColumnNames, fault \in BOOLEAN :
          LET hit == {c \in db.kanban_columns : Match(c, column_id, req[r].user_id)}
          IN  IF ~fault
              THEN /\ db' = [db EXCEPT !.kanban_columns = (@ \ hit) \cup
                               {set_kanban_column(c, name) : c \in hit}]
                   /\ Return(r, [status |-> 200,
                                 detail |-> "Kanban column updated successfully",
                                 id |-> column_id, rowcount |-> Cardinality(hit)])
              ELSE /\ db' = db
                   /\ Return(r, DbError @@ [id |-> column_id])
    /\ UNCHANGED <<scope, clock, seq, buckets, files, held, createdBy, regd, issued>>

get_kanban_columns(r) ==
    /\ At(r, "get_kanban_columns")
    /\ \E fault \in BOOLEAN :
          LET columns == {[id |-> c.id, name |-> c.name] :
                          c \in {x \in db.kanban_columns : Owned(x, req[r].user_id)}}
          IN  IF ~fault
              THEN Return(r, [status |-> 200, detail |-> "columns", rows |-> columns])
              ELSE Return(r, DbError)
    /\ UNCHANGED <<scope, clock, db, seq, buckets, files, held, createdBy, regd, issued>>

create_kanban_task(r) ==
    /\ At(r, "create_kanban_task")
    /\ \E column_id \in PathIds, description \in TaskDescriptions, fault \in BOOLEAN :
          LET task_id == seq.kanban_tasks
          IN  IF ~fault
              THEN /\ Insert(r, "kanban_tasks",
                             [id |-> task_id, user_id |-> req[r].user_id,
                              column_id |-> column_id, description |-> description])
                   /\ Return(r, [status |-> 200,
                                 detail |-> "Kanban task created successfully",
                                 out |-> task_id])
              ELSE /\ UNCHANGED <<db, seq, createdBy>>
                   /\ Return(r, DbError)
    /\ UNCHANGED <<scope, clock, buckets, files, held, regd, issued>>

get_kanban_tasks(r) ==
    /\ At(r, "get_kanban_tasks")
    /\ \E column_id \in PathIds, fault \in BOOLEAN :
          LET tasks == {[id |-> t.id, description |-> t.description] :
                        t \in {x \in db.kanban_tasks :
                                 x.column_id = column_id /\ Owned(x, req[r].user_id)}}
          IN  IF ~fault
              THEN Return(r, [status |-> 200, detail |-> "tasks", rows |-> tasks])
              ELSE Return(r, DbError)
    /\ UNCHANGED <<scope, clock, db, seq, buckets, files, held, createdBy, regd, issued>>

\* the body is a Task, which has no column_id attribute: hasattr is false
\* and new_column_id is the column_id of the path
update_kanban_task(r) ==
    /\ At(r, "update_kanban_task")
    /\ \E column_id \in PathIds, task_id \in PathIds,
          description \in Descriptions, fault \in BOOLEAN :
          LET new_column_id == column_id
              hit == {t \in db.kanban_tasks : Match(t, task_id, req[r].user_id)}
          IN  IF ~fault
              THEN /\ db' = [db EXCEPT !.kanban_tasks = (@ \ hit) \cup
                               {set_kanban_task(t, new_column_id, description) :
                                  t \in hit}]
                   /\ Return(r, [status |-> 200,
                                 detail |-> "Kanban task updated successfully",
                                 id |-> task_id, rowcount |-> Cardinality(hit)])
              ELSE /\ db' = db
                   /\ Return(r, DbError @@ [id |-> task_id])
    /\ UNCHANGED <<scope, clock, seq, buckets, files, held, createdBy, regd, issued>>

\* column_id of the path is not used
delete_kanban_task(r) ==
    /\ At(r, "delete_kanban_task")
    /\ \E task_id \in PathIds, fault \in BOOLEAN :
          LET hit == {t \in db.kanban_tasks : Match(t, task_id, req[r].user_id)}
          IN  IF ~fault
              THEN /\ db' = [db EXCEPT !.kanban_tasks = @ \ hit]
                   /\ Return(r, [status |-> 200,
                                 detail |-> "Kanban task deleted successfully",
                                 id |-> task_id, rowcount |-> Cardinality(hit)])
              ELSE /\ db' = db
                   /\ Return(r, DbError @@ [id |-> task_id])
    /\ UNCHANGED <<scope, clock, seq, buckets, files, held, createdBy, regd, issued>>

(***************************************************************************)
(* Health records: three tables with the same three handlers each.         *)
(***************************************************************************)
\* SELECT * FROM <table> WHERE user_id = $1
get_health(r, op, table) ==
    /\ At(r, op)
    /\ \E fault \in BOOLEAN :
          LET found == {x \in db[table] : Owned(x, req[r].user_id)}
          IN  IF ~fault
              THEN Return(r, [status |-> 200, detail |-> table, rows |-> found])
              ELSE Return(r, DbError)
    /\ UNCHANGED <<scope, clock, db, seq, buckets, files, held, createdBy, regd, issued>>

\* INSERT INTO <table> (user_id, ...) VALUES ($1, ...) RETURNING id
create_health(r, op, table) ==
    /\ At(r, op)
    /\ \E val \in HealthVals, fault \in BOOLEAN :
          LET new_id == seq[table]
          IN  IF ~fault
              THEN /\ Insert(r, table, [id |-> new_id, user_id |-> req[r].user_id,
                                     val |-> val])
                   /\ Return(r, [status |-> 200, detail |-> "created successfully",
                                 out |-> new_id])
              ELSE /\ UNCHANGED <<db, seq, createdBy>>
                   /\ Return(r, DbError)
    /\ UNCHANGED <<scope, clock, buckets, files, held, regd, issued>>

\* DELETE FROM <table> WHERE id = $1 AND user_id = $2
delete_health(r, op, table) ==
    /\ At(r, op)
    /\ \E id \in PathIds, fault \in BOOLEAN :
          LET hit == {x \in db[table] : Match(x, id, req[r].user_id)}
          IN  IF ~fault
              THEN /\ db' = [db EXCEPT ![table] = @ \ hit]
                   /\ Return(r, [status |-> 200, detail |-> "deleted successfully",
                                 id |-> id, rowcount |-> Cardinality(hit)])
              ELSE /\ db' = db
                   /\ Return(r, DbError @@ [id |-> id])
    /\ UNCHANGED <<scope, clock, seq, buckets, files, held, createdBy, regd, issued>>

get_health_activity(r) == get_health(r, "get_health_activity", "health_activity")
create_health_activity(r) == create_health(r, "create_health_activity", "health_activity")
delete_health_activity(r) == delete_health(r, "delete_health_activity", "health_activity")
get_health_glucose(r) == get_health(r, "get_health_glucose", "health_glucose")
create_health_glucose(r) == create_health(r, "create_health_glucose", "health_glucose")
delete_health_glucose(r) == delete_health(r, "delete_health_glucose", "health_glucose")
create_health_food(r) == create_health(r, "create_health_food", "health_food")
delete_health_food(r) == delete_health(r, "delete_health_food", "health_food")
get_health_food(r) == get_health(r, "get_health_food", "health_food")

(***************************************************************************)
(* Supabase storage.  The client is synchronous: a handler is one step.    *)
(* The storage is a service outside the source; of its behaviour the model *)
(* assumes that a bucket id compares equal to the user id it was created   *)
(* with, that upload and list need the bucket, and that a signed URL needs *)
(* the file.  `calls` counts the storage calls the handler made.           *)
(***************************************************************************)
StorageResp(op, client, token, st, fields) ==
    fields @@ [op |-> op, client |-> client, token |-> token,
               user_id |-> st.user_id] @@ Blank

StorageError(n) == [status |-> 500, detail |-> "storage error", calls |-> n]

post_bucket ==
    /\ scope = "storage"
    /\ \E client \in Usernames : \E token \in Presented(client) : \E fault \in BOOLEAN :
          LET st == RunPrologue(Prologue("post_bucket"), token, clock, conns, Entered)
              auth_user_id == st.user_id
          IN  IF st.status # 200
              THEN resp' = Rejected(st) /\ buckets' = buckets
              ELSE IF fault
              THEN /\ resp' = StorageResp("post_bucket", client, token, st,
                                          StorageError(1) @@ [fault |-> TRUE])
                   /\ buckets' = buckets
              ELSE IF auth_user_id \in buckets
              THEN /\ resp' = StorageResp("post_bucket", client, token, st,
                                 [status |-> 200, detail |-> "bucket found",
                                  calls |-> 1])
                   /\ buckets' = buckets
              ELSE /\ resp' = StorageResp("post_bucket", client, token, st,
                                 [status |-> 200, detail |-> "bucket created",
                                  calls |-> 2, out |-> auth_user_id])
                   /\ buckets' = buckets \cup {auth_user_id}
    /\ UNCHANGED <<scope, clock, db, seq, files, conns, req, held, createdBy,
                   regd, issued>>

upload_file ==
    /\ scope = "storage"
    /\ \E client \in Usernames : \E token \in Presented(client) :
       \E filename \in FileNames, fault \in BOOLEAN :
          LET st == RunPrologue(Prologue("upload_file"), token, clock, conns, Entered)
              auth_user_id == st.user_id
          IN  IF st.status # 200
              THEN resp' = Rejected(st) /\ files' = files
              ELSE IF fault \/ auth_user_id \notin buckets
                            \/ <<auth_user_id, filename>> \in files
              THEN /\ resp' = StorageResp("upload_file", client, token, st,
                                          StorageError(1) @@ [fault |-> fault])
                   /\ files' = files
              ELSE /\ resp' = StorageResp("upload_file", client, token, st,
                                 [status |-> 200, detail |-> "file uploaded",
                                  calls |-> 1])
                   /\ files' = files \cup {<<auth_user_id, filename>>}
    /\ UNCHANGED <<scope, clock, db, seq, buckets, conns, req, held, createdBy,
                   regd, issued>>

get_files ==
    /\ scope = "storage"
    /\ \E client \in Usernames : \E token \in Presented(client) : \E fault \in BOOLEAN :
          LET st == RunPrologue(Prologue("get_files"), token, clock, conns, Entered)
              auth_user_id == st.user_id
          IN  resp' = IF st.status # 200 THEN Rejected(st)
                      ELSE IF fault \/ auth_user_id \notin buckets
                      THEN StorageResp("get_files", client, token, st,
                                       StorageError(1) @@ [fault |-> fault])
                      ELSE StorageResp("get_files", client, token, st,
                              [status |-> 200, detail |-> "file", calls |-> 1,
                               rows |-> {f \in files : f[1] = auth_user_id}])
    /\ UNCHANGED <<scope, clock, db, seq, buckets, files, conns, req, held,
                   createdBy, regd, issued>>

delete_file ==
    /\ scope = "storage"
    /\ \E client \in Usernames : \E token \in Presented(client) :
       \E file_name \in FileNames, fault \in BOOLEAN :
          LET st == RunPrologue(Prologue("delete_file"), token, clock, conns, Entered)
              auth_user_id == st.user_id
          IN  IF st.status # 200
              THEN resp' = Rejected(st) /\ files' = files
              ELSE IF fault
              THEN /\ resp' = StorageResp("delete_file", client, token, st,
                                          StorageError(1) @@ [fault |-> TRUE])
                   /\ files' = files
              ELSE /\ resp' = StorageResp("delete_file", client, token, st,
                                 [status |-> 200, detail |-> "file deleted",
                                  calls |-> 1])
                   /\ files' = files \ {<<auth_user_id, file_name>>}
    /\ UNCHANGED <<scope, clock, db, seq, buckets, conns, req, held, createdBy,
                   regd, issued>>

download_file ==
    /\ scope = "storage"
    /\ \E client \in Usernames : \E token \in Presented(client) :
       \E file_name \in FileNames, fault \in BOOLEAN :
          LET st == RunPrologue(Prologue("download_file"), token, clock, conns, Entered)
              auth_user_id == st.user_id
          IN  resp' = IF st.status # 200 THEN Rejected(st)
                      ELSE IF fault \/ <<auth_user_id, file_name>> \notin files
                      THEN StorageResp("download_file", client, token, st,
                                       StorageError(1) @@ [fault |-> fault])
                      ELSE StorageResp("download_file", client, token, st,
                              [status |-> 200, detail |-> "file_url", calls |-> 1,
                               rows |-> {<<auth_user_id, file_name>>}])
    /\ UNCHANGED <<scope, clock, db, seq, buckets, files, conns, req, held,
                   createdBy, regd, issued>>

Next ==
    \/ Tick
    \/ \E r \in Reqs : Begin(r)
    \/ \E r \in Reqs : create_user(r)
    \/ \E r \in Reqs : login(r)
    \/ verify_token_endpoint
    \/ \E r \in Reqs : create_task(r)
    \/ \E r \in Reqs : get_tasks(r)
    \/ \E r \in Reqs : update_task_select(r)
    \/ \E r \in Reqs : update_task(r)
    \/ \E r \in Reqs : delete_task(r)
    \/ \E r \in Reqs : create_kanban_column(r)
    \/ \E r \in Reqs : delete_kanban_column(r)
    \/ \E r \in Reqs : create_kanban_task(r)
    \/ \E r \in Reqs : update_kanban_column(r)
    \/ \E r \in Reqs : get_kanban_columns(r)
    \/ \E r \in Reqs : get_kanban_tasks(r)
    \/ \E r \in Reqs : update_kanban_task(r)
    \/ \E r \in Reqs : delete_kanban_task(r)
    \/ \E r \in Reqs : get_health_activity(r)
    \/ \E r \in Reqs : create_health_activity(r)
    \/ \E r \in Reqs : delete_health_activity(r)
    \/ \E r \in Reqs : get_health_glucose(r)
    \/ \E r \in Reqs : create_health_glucose(r)
    \/ \E r \in Reqs : delete_health_glucose(r)
    \/ \E r \in Reqs : create_health_food(r)
    \/ \E r \in Reqs : delete_health_food(r)
    \/ \E r \in Reqs : get_health_food(r)
    \/ post_bucket
    \/ upload_file
    \/ get_files
    \/ delete_file
    \/ download_file

Spec == Init /\ [][Next]_vars

(***************************************************************************)
(* The endpoints of one scope only, for the claims about them.             *)
(***************************************************************************)
AccountNext ==
    \/ Tick
    \/ \E r \in Reqs : Begin(r)
    \/ \E r \in Reqs : create_user(r)
    \/ \E r \in Reqs : login(r)
    \/ verify_token_endpoint

AccountInit == Init /\ scope = "accounts"

AccountSpec == AccountInit /\ [][AccountNext]_vars

TaskNext ==
    \/ Tick
    \/ \E r \in Reqs : Begin(r)
    \/ \E r \in Reqs : create_task(r)
    \/ \E r \in Reqs : get_tasks(r)
    \/ \E r \in Reqs : update_task_select(r)
    \/ \E r \in Reqs : update_task(r)
    \/ \E r \in Reqs : delete_task(r)

TaskInit == Init /\ scope = "tasks"

TaskSpec == TaskInit /\ [][TaskNext]_vars

(***************************************************************************)
(* The token codec on its own: create_access_token and verify_token called *)
(* directly, with an explicit expires_delta or none, the clock advancing   *)
(* by seconds.                                                             *)
(***************************************************************************)
TokenInit ==
    /\ scope = "codec"
    /\ clock = 0
    /\ db = [users |-> InitUsers, tasks |-> {}, kanban_columns |-> {},
             kanban_tasks |-> {}, health_activity |-> {},
             health_glucose |-> {}, health_food |-> {}]
    /\ seq = [users |-> 3, tasks |-> 1, kanban_columns |-> 1,
              kanban_tasks |-> 1, health_activity |-> 1,
              health_glucose |-> 1, health_food |-> 1]
    /\ buckets = {}
    /\ files = {}
    /\ conns = {}
    /\ req = [r \in Reqs |-> Idle]
    /\ resp = NoResp
    /\ held = [n \in Usernames |-> NoToken]
    /\ createdBy = {}
    /\ regd = {}
    /\ issued = NoIssue

\* token = create_access_token(data={"user_id": user_id}, expires_delta)
IssueToken ==
    /\ \E user_id \in {u.id : u \in db.users},
          expires_delta \in {NoDelta} \cup (0 .. MaxDelta) :
          issued' = [token |-> create_access_token(user_id, expires_delta, clock),
                     user_id |-> user_id, at |-> clock, delta |-> expires_delta]
    /\ resp' = NoResp
    /\ UNCHANGED <<scope, clock, db, seq, buckets, files, conns, req, held,
                   createdBy, regd>>

\* verify_token(token), the token as issued or with its signature replaced
ValidateToken ==
    /\ issued # NoIssue
    /\ \E token \in {issued.token, jwt_encode(issued.token, OtherKey)} :
          LET v == verify_token(token, clock)
          IN  resp' = [Blank EXCEPT !.op = "verify_token", !.token = token,
                                    !.status = v.status, !.detail = v.detail,
                                    !.user_id = v.user_id]
    /\ UNCHANGED <<scope, clock, db, seq, buckets, files, conns, req, held,
                   createdBy, regd, issued>>

\* a second passes (followed for MaxDelta + MaxSeconds seconds from the start
\* and from each expiry of a default token), or the life of a default token
TokenTick ==
    /\ \E d \in {1, DefaultExpireMinutes * 60} :
          /\ d = 1 => clock % (DefaultExpireMinutes * 60) < MaxDelta + MaxSeconds
          /\ clock + d <= DefaultExpireMinutes * 60 + MaxDelta + MaxSeconds
          /\ clock' = clock + d
    /\ resp' = NoResp
    /\ UNCHANGED <<scope, db, seq, buckets, files, conns, req, held, createdBy,
                   regd, issued>>

TokenNext == IssueToken \/ ValidateToken \/ TokenTick

TokenSpec == TokenInit /\ [][TokenNext]_vars

(***************************************************************************)
(* Properties.                                                             *)
(***************************************************************************)
UserIds == 1 .. Cardinality(Usernames)

\* the rows of every owned table whose owner is user_id
RowsOf(user_id) == [t \in OwnedTables |-> {x \in db[t] : x.user_id = user_id}]

\* the table a read handler selects from
ReadTable ==
    [get_tasks |-> "tasks", get_kanban_columns |-> "kanban_columns",
     get_kanban_tasks |-> "kanban_tasks",
     get_health_activity |-> "health_activity",
     get_health_glucose |-> "health_glucose",
     get_health_food |-> "health_food"]

UpdateOps == {"update_task", "update_kanban_column", "update_kanban_task"}
DeleteOps == {"delete_task", "delete_kanban_column", "delete_kanban_task",
              "delete_health_activity", "delete_health_glucose",
              "delete_health_food"}

InFlight == {r \in Reqs : req[r].pc # "idle"}

\* the token is signed with the server's key and not at its expiry
TokenGood(token, now) ==
    /\ token # NoToken
    /\ token.sig = HS256(token.user_id, token.exp, SECRET_KEY)
    /\ now < token.exp

\* C1: owner isolation.  In every step, the rows owned by an account change
\* (are added, updated or deleted) only if the step answers a request that
\* presented a token issued to that account, and every row a read handler
\* returns is a row of the table owned by the account the presented token
\* was issued to.
C1_OwnerIsolation ==
    [][/\ \A u \in UserIds :
             RowsOf(u)' # RowsOf(u) => AccountId(resp'.client) = u
       /\ resp'.op \in DOMAIN ReadTable =>
             \A row \in resp'.rows :
                \E x \in db'[ReadTable[resp'.op]] :
                   x.id = row.id /\ x.user_id = AccountId(resp'.client)]_vars

\* account b reads its tasks and gets some, while account a has tasks too
C1_Witness ==
    /\ resp.op = "get_tasks" /\ resp.client = "b" /\ resp.rows # {}
    /\ \E x \in db.tasks : x.user_id = AccountId("a")

\* C2: once account A has created a task, update_task and delete_task by
\* another account B on that task's id answer 404 Not Found (when the
\* database raises no error of its own), return no row and leave the tasks
\* unchanged.
C2_ForeignTaskNotFound ==
    [][(/\ resp'.op \in {"update_task", "delete_task"}
        /\ ~resp'.fault
        /\ \E c \in createdBy :
              c[1] = "tasks" /\ c[2] = resp'.id /\ c[3] # AccountId(resp'.client))
       => (resp'.status = 404 /\ resp'.rows = {} /\ db'.tasks = db.tasks)]_vars

\* C3: an update or delete whose (id, owner) filter matched no row answers
\* 404 Not Found (when the database raises no error of its own).
C3_NoMatchNotFound ==
    (/\ resp.op \in UpdateOps \cup DeleteOps
     /\ ~resp.fault
     /\ resp.rowcount = 0)
    => resp.status = 404

\* C4: fail-closed ordering.  A request answered 401 has opened no database
\* connection and made no storage call, and its step changes no table, no
\* storage and no connection; a request is admitted past the prologue of an
\* authenticated handler only with a token that is present, signed by the
\* server and not expired.
C4_FailClosed ==
    [][/\ resp'.status = 401 =>
             /\ resp'.calls = 0
             /\ UNCHANGED <<db, seq, buckets, files, conns, req, createdBy>>
       /\ \A r \in Reqs :
             (req[r].pc = "idle" /\ req'[r].pc # "idle"
              /\ req'[r].op \notin {"create_user", "login"})
             => TokenGood(req'[r].token, clock)
       /\ (resp'.op \in AtomicOps /\ resp'.status # 401)
             => TokenGood(resp'.token, clock)]_vars

\* a task handler has refused an expired token
C4_Witness ==
    /\ scope = "tasks" /\ resp.status = 401 /\ resp.detail = "Token expired"
    /\ resp.calls = 0

\* C9: connection release.  The open connections are exactly those of the
\* requests in flight, one each and no two the same: after any exit of a
\* handler its connection is closed, and with no request in flight no
\* connection is open.
C9_ConnectionRelease ==
    /\ conns = {req[r].conn : r \in InFlight}
    /\ \A r \in InFlight : req[r].conn # 0
    /\ \A r, q \in InFlight : r # q => req[r].conn # req[q].conn

\* a handler has left through an HTTPException, and nothing is open
C9_Witness ==
    /\ resp.status \in {400, 404} /\ InFlight = {} /\ conns = {}

\* C10: ownership.  Every row of an owned table has one creation on record,
\* its owner is the account whose token the creating request presented, and
\* no other row of the table has its id.
C10_OwnerFixed ==
    \A t \in OwnedTables : \A x \in db[t] :
       /\ {c[3] : c \in {d \in createdBy : d[1] = t /\ d[2] = x.id}} = {x.user_id}
       /\ \A y \in db[t] : y.id = x.id => y = x

\* a kanban task has been updated
C10_Witness ==
    /\ resp.op = "update_kanban_task" /\ resp.status = 200 /\ resp.rowcount = 1
    /\ \E x \in db.kanban_tasks : x.id = resp.id /\ x.description = "d2"

\* the time to live create_access_token is asked for, in seconds
AskedTtl(expires_delta) ==
    IF expires_delta = NoDelta THEN DefaultExpireMinutes * 60 ELSE expires_delta

\* C5: token expiry.  A token issued at time t0 with time to live d (any d,
\* 0 included; 15 minutes when none is given) carries expiry t0 + d, and
\* verify_token at any time t >= t0 + d answers 401 "Token expired".
C5_TokenExpiry ==
    issued # NoIssue =>
       /\ issued.token.exp = issued.at + AskedTtl(issued.delta)
       /\ (/\ resp.op = "verify_token" /\ resp.token = issued.token
           /\ clock >= issued.at + AskedTtl(issued.delta))
          => (resp.status = 401 /\ resp.detail = "Token expired")

\* C6: token round trip.  The token login returned for an account, verified
\* before its expiry (so also at once), is accepted with that account's id
\* as user_id; and verify-token answering 200 to that token returns the id
\* of the account that logged in.
C6_TokenRoundTrip ==
    /\ \A n \in Usernames :
          (held[n] # NoToken /\ clock < held[n].exp) =>
             LET v == verify_token(held[n], clock)
             IN  v.status = 200 /\ v.user_id = AccountId(n) /\ v.user_id # 0
    /\ (resp.op = "login" /\ resp.status = 200) =>
          LET v == verify_token(resp.access_token, clock)
          IN  v.status = 200 /\ v.user_id = AccountId(resp.username)
    /\ (/\ resp.op = "verify_token_endpoint" /\ resp.status = 200
        /\ resp.token = held[resp.client])
       => resp.out = AccountId(resp.client)

\* account c, registered and logged in, has its id back from verify-token
C6_Witness ==
    /\ resp.op = "verify_token_endpoint" /\ resp.status = 200
    /\ resp.client = "c" /\ resp.token = held["c"] /\ resp.out = 3

\* C7: credential round trip.  Once create_user has answered for a
\* (username, password) pair, login with that pair, whatever was requested in
\* between, answers 200 with a token for the account id create_user
\* returned (when the database raises no error of its own).
C7_CredentialRoundTrip ==
    (resp.op = "login" /\ ~resp.fault) =>
       \A g \in regd :
          (g.username = resp.username /\ g.password = resp.password) =>
             /\ resp.status = 200
             /\ resp.access_token.user_id = g.id
             /\ verify_token(resp.access_token, clock).user_id = g.id

\* account c was registered in this behaviour and has logged in
C7_Witness ==
    /\ resp.op = "login" /\ resp.status = 200 /\ resp.username = "c"
    /\ \E g \in regd : g.username = "c" /\ g.password = resp.password /\ g.id = 3

\* C8: create_user with a username that is present answers Conflict (409), not
\* the generic Internal error, adds no second account of that name and
\* leaves the present account as it is; of concurrent create_user requests
\* for one username at most one succeeds.
C8_DuplicateConflict ==
    [][/\ (/\ resp'.op = "create_user" /\ ~resp'.fault
           /\ \E u \in db.users : u.username = resp'.username)
          => (resp'.status = 409 /\ db'.users = db.users)
       /\ \A n \in Usernames :
             Cardinality({g \in regd' : g.username = n}) <= 1]_vars

\* C11: under any interleaving of requests, whenever update_task answers
\* "Task updated successfully", its UPDATE statement modified a task with
\* that id owned by the caller: the row its SELECT found is still there when
\* the UPDATE runs, also when a delete_task of the same task runs in between.
C11_UpdateHitsRow ==
    [][(/\ resp'.op = "update_task"
        /\ resp'.detail = "Task updated successfully")
       => /\ \E t \in db.tasks :
                t.id = resp'.id /\ t.user_id = resp'.user_id
          /\ resp'.rowcount = 1]_vars

=============================================================================
